---- MODULE Spec2Model ----
(***************************************************************************)
(* Model of functional/progress_tracker.py: the progress store.            *)
(*                                                                         *)
(* Representation.                                                         *)
(*  - A Python dict (and a JSON object) is a sequence of <<key, value>>    *)
(*    pairs in insertion order, with pairwise distinct keys.               *)
(*  - A JSON text on disk is the sequence of the members of its top-level  *)
(*    object as written, which may repeat a key; json.loads folds it into  *)
(*    a dict (Loads), json.dumps writes a dict's items in order (Dumps).   *)
(*  - Scalars: timestamps, dates, durations and version are integers;      *)
(*    every other scalar is a string, None/null being the string Null      *)
(*    (planTask 2 is "2").  Each key holds values of one TLA+ type.        *)
(*  - datetime.utcnow() reads the variable now, which Tick advances.       *)
(***************************************************************************)
EXTENDS Integers, Sequences, FiniteSets, TLC

VARIABLES now, disk, sessions, trace, last, steps, origin, fs, procs

vars == <<now, disk, sessions, trace, last, steps, origin, fs, procs>>

\* ------------------------------------------------------------------ bounds
MaxClock == 1
MaxSteps == 4
MaxBuf == 3
DayTicks == 2
MaxMissing == 3

SessionIds == {"s1", "s2"}

Null == "null"
ProjectName == "proj"

\* ------------------------------------------------------- dicts (ordered)
Keys(d) == {d[i][1] : i \in DOMAIN d}

Has(d, k) == k \in Keys(d)

Idx(d, k) == CHOOSE i \in DOMAIN d : d[i][1] = k

Get(d, k) == d[Idx(d, k)][2]

Put(d, k, v) ==
    IF Has(d, k) THEN [d EXCEPT ![Idx(d, k)] = <<k, v>>] ELSE Append(d, <<k, v>>)

RECURSIVE Update(_, _)
Update(d, e) == IF e = <<>> THEN d ELSE Update(Put(d, Head(e)[1], Head(e)[2]), Tail(e))

Pop(d, k) == SelectSeq(d, LAMBDA p : p[1] # k)

\* --------------------------------------------------------------- events
SESSION_START == "session_start"
SESSION_END == "session_end"
CHECKPOINT == "checkpoint"
PLAN_STARTED == "plan_started"
PLAN_TASK_COMPLETED == "plan_task_completed"

to_dict(e) == Update(<< <<"type", e.type>>, <<"timestamp", e.timestamp>> >>, e.data)

\* ProgressEvent.from_dict: type and timestamp are popped, the rest is data.
from_dict(d) ==
    [type |-> Get(d, "type"), timestamp |-> Get(d, "timestamp"),
     data |-> Pop(Pop(d, "type"), "timestamp")]

create_event(event_type, kwargs, t) ==
    [type |-> event_type, timestamp |-> t, data |-> kwargs]

EventsToDicts(events) == [i \in DOMAIN events |-> to_dict(events[i])]

\* ------------------------------------------------------------ the record
DateOf(t) == t \div DayTicks

GeneralWork ==
    << <<"type", "general">>, <<"plan", Null>>, <<"planTask", Null>>,
       <<"debugIssue", Null>>, <<"debugPhase", Null>> >>

create_empty_progress(project_name, t) ==
    << <<"version", 2>>,
       <<"lastUpdated", t>>,
       <<"project", project_name>>,
       <<"currentWork", GeneralWork>>,
       <<"lastSession",
         << <<"date", DateOf(t)>>, <<"duration_minutes", 0>>, <<"summary", "">>,
            <<"events", <<>> >>, <<"commits", <<>> >>, <<"nextSteps", <<>> >> >> >>,
       <<"recentSessions", <<>> >>,
       <<"knownIssues", <<>> >> >>

\* --------------------------------------------------------- JSON and files
Loads(text) == Update(<<>>, text)

Dumps(data) == data

NoFile == [exists |-> FALSE, wellformed |-> FALSE, text |-> <<>>]

FileOf(text) == [exists |-> TRUE, wellformed |-> TRUE, text |-> text]

CorruptFile == [exists |-> TRUE, wellformed |-> FALSE, text |-> <<>>]

load_progress_heal(d, t) ==
    IF ~d.exists \/ ~d.wellformed
    THEN [disk |-> FileOf(Dumps(create_empty_progress(ProjectName, t))),
          data |-> create_empty_progress(ProjectName, t),
          raised |-> FALSE]
    ELSE [disk |-> d, data |-> Loads(d.text), raised |-> FALSE]

load_progress_no_persist(d, t) ==
    IF ~d.exists
    THEN [disk |-> d, data |-> create_empty_progress(ProjectName, t), raised |-> FALSE]
    ELSE IF ~d.wellformed
    THEN [disk |-> d, data |-> <<>>, raised |-> TRUE]
    ELSE [disk |-> d, data |-> Loads(d.text), raised |-> FALSE]

load_progress_recreate(d, t) ==
    IF d.exists /\ ~d.wellformed
    THEN [disk |-> d, data |-> <<>>, raised |-> TRUE]
    ELSE [disk |-> FileOf(Dumps(create_empty_progress(ProjectName, t))),
          data |-> create_empty_progress(ProjectName, t),
          raised |-> FALSE]

\* _load_progress: the file after the call, the record returned, and whether
\* json.loads raised.
load_progress(d, t) ==
    IF ~d.exists
    THEN [disk |-> FileOf(Dumps(create_empty_progress(ProjectName, t))),
          data |-> create_empty_progress(ProjectName, t),
          raised |-> FALSE]
    ELSE IF ~d.wellformed
    THEN [disk |-> d, data |-> <<>>, raised |-> TRUE]
    ELSE [disk |-> d, data |-> Loads(d.text), raised |-> FALSE]

save_progress_upgrade(data, t) ==
    FileOf(Dumps(Put(Put(data, "version", 2), "lastUpdated", t)))

save_progress_schema_keys(data, t) ==
    FileOf(Dumps(SelectSeq(Put(data, "lastUpdated", t),
                           LAMBDA p : p[1] \in Keys(create_empty_progress(ProjectName, t)))))

\* _save_progress: the file it writes.
save_progress(data, t) == FileOf(Dumps(Put(data, "lastUpdated", t)))

\* ------------------------------------------------------------ validation
REQUIRED_TOP_LEVEL == <<"version", "project", "currentWork", "lastSession">>

REQUIRED_CURRENT_WORK_with_featureId ==
    <<"type", "plan", "planTask", "debugIssue", "debugPhase", "featureId">>

REQUIRED_CURRENT_WORK == <<"type", "plan", "planTask", "debugIssue", "debugPhase">>

REQUIRED_LAST_SESSION ==
    <<"date", "duration_minutes", "summary", "events", "commits", "nextSteps">>

\* The loop "for field in fields: if field not in d: raise": the field it
\* raises for, "" when it raises for none.
RECURSIVE FirstMissing(_, _)
FirstMissing(fields, d) ==
    IF fields = <<>> THEN ""
    ELSE IF ~Has(d, Head(fields)) THEN Head(fields)
    ELSE FirstMissing(Tail(fields), d)

Raise(message, field) == [result |-> message, field |-> field]

Passed == [result |-> "ok", field |-> ""]

validate_progress_schema_sessions_first(data) ==
    IF ~Has(data, "version") THEN Raise("Missing required field", "version")
    ELSE IF Get(data, "version") # 2 THEN Raise("Expected version 2", "version")
    ELSE IF FirstMissing(REQUIRED_TOP_LEVEL, data) # ""
    THEN Raise("Missing required field", FirstMissing(REQUIRED_TOP_LEVEL, data))
    ELSE IF FirstMissing(REQUIRED_LAST_SESSION, Get(data, "lastSession")) # ""
    THEN Raise("Missing lastSession field",
               FirstMissing(REQUIRED_LAST_SESSION, Get(data, "lastSession")))
    ELSE IF FirstMissing(REQUIRED_CURRENT_WORK, Get(data, "currentWork")) # ""
    THEN Raise("Missing currentWork field",
               FirstMissing(REQUIRED_CURRENT_WORK, Get(data, "currentWork")))
    ELSE Passed

\* validate_progress_schema: the error it raises and the field the message
\* names, or Passed.
validate_progress_schema(data) ==
    IF ~Has(data, "version") THEN Raise("Missing required field", "version")
    ELSE IF Get(data, "version") # 2 THEN Raise("Expected version 2", "version")
    ELSE IF FirstMissing(REQUIRED_TOP_LEVEL, data) # ""
    THEN Raise("Missing required field", FirstMissing(REQUIRED_TOP_LEVEL, data))
    ELSE IF FirstMissing(REQUIRED_CURRENT_WORK, Get(data, "currentWork")) # ""
    THEN Raise("Missing currentWork field",
               FirstMissing(REQUIRED_CURRENT_WORK, Get(data, "currentWork")))
    ELSE IF FirstMissing(REQUIRED_LAST_SESSION, Get(data, "lastSession")) # ""
    THEN Raise("Missing lastSession field",
               FirstMissing(REQUIRED_LAST_SESSION, Get(data, "lastSession")))
    ELSE Passed

\* ------------------------------------------------------ operation inputs
\* A call of set_current_work: its work_type and its five optional fields.
WorkArgs ==
    { [type |-> "general", plan |-> Null, planTask |-> Null, debugIssue |-> Null,
       debugPhase |-> Null, featureId |-> Null],
      [type |-> "plan", plan |-> "p.md", planTask |-> "2", debugIssue |-> Null,
       debugPhase |-> Null, featureId |-> Null],
      [type |-> "debug", plan |-> Null, planTask |-> Null, debugIssue |-> "bug",
       debugPhase |-> "investigating", featureId |-> Null],
      [type |-> "feature", plan |-> Null, planTask |-> Null, debugIssue |-> Null,
       debugPhase |-> Null, featureId |-> "f1"],
      [type |-> "plan", plan |-> "p.md", planTask |-> Null, debugIssue |-> "bug",
       debugPhase |-> Null, featureId |-> Null] }

NoWorkArgs == CHOOSE w \in WorkArgs : w.type = "general"

Commit1 == << <<"hash", "abc123">>, <<"message", "Test commit">> >>

\* A call of end_session: given is FALSE when next_steps is left to its default.
EndArgs ==
    { [duration |-> 30, summary |-> "S", commits |-> <<Commit1>>, given |-> FALSE,
       nextSteps |-> <<>>],
      [duration |-> 0, summary |-> "", commits |-> <<>>, given |-> TRUE,
       nextSteps |-> <<"n1", "n2">>] }

NoEndArgs == CHOOSE a \in EndArgs : a.duration = 0

\* A call of add_event: its event_type and its keyword arguments.
EventInputs ==
    { [type |-> PLAN_STARTED, kwargs |-> << <<"plan", "p.md">> >>],
      [type |-> PLAN_TASK_COMPLETED, kwargs |-> << <<"task", "1">> >>] }

\* ------------------------------------------------------- initial files
OldRecord ==
    << <<"version", 2>>,
       <<"lastUpdated", 0>>,
       <<"project", ProjectName>>,
       <<"currentWork",
         << <<"type", "debug">>, <<"plan", Null>>, <<"planTask", Null>>,
            <<"debugIssue", "bug">>, <<"debugPhase", "investigating">>,
            <<"featureId", Null>> >> >>,
       <<"lastSession",
         << <<"date", 0>>, <<"duration_minutes", 45>>, <<"summary", "old">>,
            <<"events", <<>> >>, <<"commits", <<Commit1, Commit1>> >>,
            <<"nextSteps", <<"old step">> >>, <<"notes", "kept by hand">> >> >>,
       <<"recentSessions", <<"r1">> >>,
       <<"knownIssues", <<"k1">> >>,
       <<"custom", "x">> >>

InitDisks ==
    { NoFile, CorruptFile, FileOf(<<>>), FileOf(Dumps(create_empty_progress(ProjectName, 0))),
      FileOf(Dumps(OldRecord)) }

\* ------------------------------------------------------------ directories
\* A directory is the sequence of names leading to it from the filesystem
\* root <<>>, which is its own parent as Path("/").parent is.
Dirs == {<<>>, <<"r">>, <<"r", "sub">>, <<"r", "sub", "deep">>, <<"r", "other">>}

Parent(d) == IF d = <<>> THEN d ELSE SubSeq(d, 1, Len(d) - 1)

\* Path.name: the last component, empty for the root.
Name(d) == IF d = <<>> THEN "" ELSE d[Len(d)]

\* What find_progress_file returns: None, or the progress file of a directory.
NotFound == [some |-> FALSE, dir |-> <<>>]
Found(d) == [some |-> TRUE, dir |-> d]

\* The tree: the progress file of each directory and the directories that
\* hold a .git entry.
NoTree == [files |-> [d \in Dirs |-> NoFile], git |-> {}]

HasFile(f, d) == f.files[d].exists
HasGit(f, d) == d \in f.git

\* -------------------------------------------------------------- processes
\* Processes that import the module and work on the same path. Each has its
\* own _session_events, and between its _load_progress and its
\* _save_progress it holds the record it is about to write.
Procs == {"A", "B"}

IdleProc ==
    [pc |-> "idle", call |-> "", sid |-> "", work |-> NoWorkArgs, end |-> NoEndArgs,
     loaded |-> <<>>, data |-> <<>>, buffers |-> <<>>,
     ghost |-> [s \in SessionIds |-> [started |-> FALSE, added |-> <<>>]],
     flushed |-> [started |-> FALSE, added |-> <<>>]]

NoProcs == [p \in Procs |-> IdleProc]

\* ---------------------------------------------------------------- history
\* last: the call that made the latest step, its arguments and its outcome.
\* started/added: whether start_session had opened the session an end_session
\* closed, and the events add_event was given for it since.  created: the
\* call found no file and created it.  field: the field a validation error
\* names.  prevOp, prevRet, prevCreated: op, ret and created of the call
\* before a load.
NoCall ==
    [op |-> "none", sid |-> "", result |-> "ok", ret |-> <<>>, work |-> NoWorkArgs,
     end |-> NoEndArgs, started |-> FALSE, added |-> <<>>, created |-> FALSE,
     field |-> "", prevOp |-> "none", prevRet |-> <<>>, prevCreated |-> FALSE,
     cwd |-> <<>>, create |-> FALSE, path |-> NotFound,
     proc |-> "", call |-> "", loaded |-> <<>>, before |-> NoFile, dropped |-> <<>>]

\* The record a reader parses from the file.
DiskData == Loads(disk.text)

Call(op, sid, result) ==
    [NoCall EXCEPT !.op = op, !.sid = sid, !.result = result, !.created = ~disk.exists]

NoTrace == [started |-> FALSE, added |-> <<>>]

Init ==
    /\ now = 0
    /\ disk \in InitDisks
    /\ sessions = <<>>
    /\ trace = [s \in SessionIds |-> NoTrace]
    /\ last = NoCall
    /\ steps = 0
    /\ origin = disk
    /\ fs = NoTree
    /\ procs = NoProcs

\* ------------------------------------------------------------ operations
SetBuffer_extend(sess, s, buf) ==
    [x \in DOMAIN sess \cup {s} |->
        IF x # s THEN sess[x]
        ELSE IF s \in DOMAIN sess THEN sess[s] \o buf ELSE buf]

SetBuffer(sess, s, buf) ==
    [x \in DOMAIN sess \cup {s} |-> IF x = s THEN buf ELSE sess[x]]

DelBuffer_all(sess, s) == <<>>

DelBuffer_keep(sess, s) == sess

DelBuffer(sess, s) == [x \in DOMAIN sess \ {s} |-> sess[x]]

start_session_data_fresh(data) ==
    Put(Put(data, "currentWork", Put(Get(data, "currentWork"), "type", "general")),
        "lastSession", <<>>)

\* start_session, lines 167-170 once _load_progress has returned data.
start_session_data(data) ==
    Put(data, "currentWork", Put(Get(data, "currentWork"), "type", "general"))

start_session_buffer(t) == <<create_event(SESSION_START, <<>>, t)>>

StartSession(s) ==
    /\ steps < MaxSteps
    /\ steps' = steps + 1
    /\ UNCHANGED <<origin, fs, procs>>
    /\ now' = now
    /\ LET r == load_progress(disk, now) IN
         IF r.raised
         THEN /\ last' = Call("start_session", s, "JSONDecodeError")
              /\ UNCHANGED <<disk, sessions, trace>>
         ELSE IF ~Has(r.data, "currentWork")
         THEN /\ last' = Call("start_session", s, "KeyError")
              /\ disk' = r.disk
              /\ UNCHANGED <<sessions, trace>>
         ELSE /\ disk' = save_progress(start_session_data(r.data), now)
              /\ sessions' = SetBuffer(sessions, s, start_session_buffer(now))
              /\ trace' = [trace EXCEPT ![s] = [started |-> TRUE, added |-> <<>>]]
              /\ last' = [Call("start_session", s, "ok") EXCEPT
                            !.dropped = IF s \in DOMAIN sessions THEN sessions[s] ELSE <<>>]

add_event_buffer_prepend(sess, s, e) ==
    <<e>> \o (IF s \in DOMAIN sess THEN sess[s] ELSE <<>>)

\* add_event, lines 216-218.
add_event_buffer(sess, s, e) ==
    Append(IF s \in DOMAIN sess THEN sess[s] ELSE <<>>, e)

AddEvent_loading(s, in) ==
    /\ steps < MaxSteps
    /\ steps' = steps + 1
    /\ UNCHANGED <<origin, fs, procs>>
    /\ (s \in DOMAIN sessions => Len(sessions[s]) < MaxBuf)
    /\ LET e == create_event(in.type, in.kwargs, now) IN
         /\ sessions' = SetBuffer(sessions, s, add_event_buffer(sessions, s, e))
         /\ trace' = [trace EXCEPT ![s].added = Append(@, e)]
    /\ last' = Call("add_event", s, "ok")
    /\ disk' = IF load_progress(disk, now).raised THEN disk ELSE load_progress(disk, now).disk
    /\ now' = now

AddEvent(s, in) ==
    /\ steps < MaxSteps
    /\ steps' = steps + 1
    /\ UNCHANGED <<origin, fs, procs>>
    /\ (s \in DOMAIN sessions => Len(sessions[s]) < MaxBuf)
    /\ LET e == create_event(in.type, in.kwargs, now) IN
         /\ sessions' = SetBuffer(sessions, s, add_event_buffer(sessions, s, e))
         /\ trace' = [trace EXCEPT ![s].added = Append(@, e)]
    /\ last' = Call("add_event", s, "ok")
    /\ UNCHANGED <<now, disk>>

end_session_events_autostart(sess, s, duration_minutes, t) ==
    Append(IF s \in DOMAIN sess /\ sess[s][1].type = SESSION_START
           THEN sess[s]
           ELSE <<create_event(SESSION_START, <<>>, t)>>
                \o (IF s \in DOMAIN sess THEN sess[s] ELSE <<>>),
           create_event(SESSION_END, << <<"duration", duration_minutes>> >>, t))

\* end_session, lines 185-186: the buffer with session_end appended.
end_session_events(sess, s, duration_minutes, t) ==
    Append(IF s \in DOMAIN sess THEN sess[s] ELSE <<>>,
           create_event(SESSION_END, << <<"duration", duration_minutes>> >>, t))

next_steps_or_empty(a) == IF a.given /\ a.nextSteps # <<>> THEN a.nextSteps ELSE <<>>

\* end_session, lines 189-196.
end_session_last(events, a, t) ==
    << <<"date", DateOf(t)>>,
       <<"duration_minutes", a.duration>>,
       <<"summary", a.summary>>,
       <<"events", EventsToDicts(events)>>,
       <<"commits", a.commits>>,
       <<"nextSteps", next_steps_or_empty(a)>> >>

end_session_data_rotate(data, events, a, t) ==
    Put(Put(Put(data, "lastSession", end_session_last(events, a, t)),
            "currentWork", GeneralWork),
        "recentSessions",
        IF Has(data, "recentSessions")
        THEN Append(Get(data, "recentSessions"), "r2")
        ELSE <<"r2">>)

end_session_data_merge(data, events, a, t) ==
    Put(Put(data, "lastSession",
            Update(IF Has(data, "lastSession") THEN Get(data, "lastSession") ELSE <<>>,
                   end_session_last(events, a, t))),
        "currentWork", GeneralWork)

end_session_data_type_only(data, events, a, t) ==
    Put(Put(data, "lastSession", end_session_last(events, a, t)),
        "currentWork",
        Put(IF Has(data, "currentWork") THEN Get(data, "currentWork") ELSE <<>>,
            "type", "general"))

\* end_session, lines 189-205 on the loaded data.
end_session_data(data, events, a, t) ==
    Put(Put(data, "lastSession", end_session_last(events, a, t)), "currentWork", GeneralWork)

EndSession(s, a) ==
    /\ steps < MaxSteps
    /\ steps' = steps + 1
    /\ UNCHANGED <<origin, fs, procs>>
    /\ now' = now
    /\ LET r == load_progress(disk, now) IN
         IF r.raised
         THEN /\ last' = [Call("end_session", s, "JSONDecodeError") EXCEPT !.end = a]
              /\ UNCHANGED <<disk, sessions, trace>>
         ELSE /\ disk' = save_progress(
                    end_session_data(
                        r.data, end_session_events(sessions, s, a.duration, now), a, now),
                    now)
              /\ sessions' = DelBuffer(sessions, s)
              /\ trace' = [trace EXCEPT ![s] = NoTrace]
              /\ last' = [Call("end_session", s, "ok") EXCEPT
                            !.end = a, !.started = trace[s].started,
                            !.added = trace[s].added]

\* get_current_work, lines 223-224.
get_current_work_stale(data) == GeneralWork

get_current_work(data) == IF Has(data, "currentWork") THEN Get(data, "currentWork") ELSE <<>>

GetCurrentWork ==
    /\ steps < MaxSteps
    /\ steps' = steps + 1
    /\ UNCHANGED <<origin, fs, procs>>
    /\ LET r == load_progress(disk, now) IN
         IF r.raised
         THEN /\ last' = Call("get_current_work", "", "JSONDecodeError")
              /\ UNCHANGED disk
         ELSE /\ disk' = r.disk
              /\ last' = [Call("get_current_work", "", "ok") EXCEPT
                            !.ret = get_current_work(r.data)]
    /\ UNCHANGED <<now, sessions, trace>>

set_current_work_value_sparse(w) ==
    SelectSeq(<< <<"type", w.type>>, <<"plan", w.plan>>, <<"planTask", w.planTask>>,
                 <<"debugIssue", w.debugIssue>>, <<"debugPhase", w.debugPhase>>,
                 <<"featureId", w.featureId>> >>,
              LAMBDA p : p[2] # Null)

\* set_current_work, lines 238-245.
set_current_work_value(w) ==
    << <<"type", w.type>>, <<"plan", w.plan>>, <<"planTask", w.planTask>>,
       <<"debugIssue", w.debugIssue>>, <<"debugPhase", w.debugPhase>>,
       <<"featureId", w.featureId>> >>

set_current_work_data_merge(data, w) ==
    Put(data, "currentWork",
        Update(IF Has(data, "currentWork") THEN Get(data, "currentWork") ELSE <<>>,
               SelectSeq(set_current_work_value(w), LAMBDA p : p[2] # Null)))

set_current_work_data(data, w) == Put(data, "currentWork", set_current_work_value(w))

SetCurrentWork(w) ==
    /\ steps < MaxSteps
    /\ steps' = steps + 1
    /\ UNCHANGED <<origin, fs, procs>>
    /\ LET r == load_progress(disk, now) IN
         IF r.raised
         THEN /\ last' = [Call("set_current_work", "", "JSONDecodeError") EXCEPT !.work = w]
              /\ UNCHANGED disk
         ELSE /\ disk' = save_progress(set_current_work_data(r.data, w), now)
              /\ last' = [Call("set_current_work", "", "ok") EXCEPT !.work = w]
    /\ UNCHANGED <<now, sessions, trace>>

\* The clock behind datetime.utcnow() advances.
Tick ==
    /\ now < MaxClock
    /\ steps < MaxSteps
    /\ steps' = steps + 1
    /\ UNCHANGED <<origin, fs, procs>>
    /\ now' = now + 1
    /\ UNCHANGED <<disk, sessions, trace, last>>

Next ==
    \/ \E s \in SessionIds : StartSession(s)
    \/ \E s \in SessionIds, in \in EventInputs : AddEvent(s, in)
    \/ \E s \in SessionIds, a \in EndArgs : EndSession(s, a)
    \/ GetCurrentWork
    \/ \E w \in WorkArgs : SetCurrentWork(w)
    \/ Tick

Spec == Init /\ [][Next]_vars

\* ----------------------------------------------- validation of records
\* Records to validate: a full record with up to MaxMissing keys taken out of
\* the top level, of currentWork and of lastSession, and a version.
FullRecords == {OldRecord, create_empty_progress(ProjectName, 0)}

VersionValues == {1, 2}

Slots ==
    ({"top"} \X {"version", "lastUpdated", "project", "currentWork", "lastSession",
                 "recentSessions", "knownIssues"})
    \cup ({"currentWork"} \X {"type", "plan", "planTask", "debugIssue", "debugPhase",
                              "featureId"})
    \cup ({"lastSession"} \X {"date", "duration_minutes", "summary", "events", "commits",
                              "nextSteps"})

Without(d, level, missing) == SelectSeq(d, LAMBDA p : <<level, p[1]>> \notin missing)

Damaged(full, v, missing) ==
    LET inner(level) ==
            [i \in DOMAIN full |->
                IF full[i][1] = level
                THEN <<level, Without(full[i][2], level, missing)>>
                ELSE IF full[i][1] = "version" THEN <<"version", v>>
                ELSE full[i]]
    IN Without([i \in DOMAIN full |->
                   IF full[i][1] = "currentWork" THEN inner("currentWork")[i]
                   ELSE inner("lastSession")[i]],
               "top", missing)

ValidateInputs ==
    { Damaged(full, v, missing) :
        full \in FullRecords, v \in VersionValues,
        missing \in {m \in SUBSET Slots : Cardinality(m) <= MaxMissing} }

InitValidate ==
    /\ now = 0
    /\ disk \in {FileOf(Dumps(r)) : r \in ValidateInputs}
    /\ sessions = <<>>
    /\ trace = [s \in SessionIds |-> NoTrace]
    /\ last = NoCall
    /\ steps = 0
    /\ origin = disk
    /\ fs = NoTree
    /\ procs = NoProcs

\* A caller validates the record it reads from the file.
Validate ==
    /\ steps < MaxSteps
    /\ steps' = steps + 1
    /\ UNCHANGED <<origin, fs, procs>>
    /\ disk.exists /\ disk.wellformed
    /\ LET v == validate_progress_schema(Loads(disk.text)) IN
         last' = [Call("validate", "", v.result) EXCEPT !.field = v.field]
    /\ UNCHANGED <<now, disk, sessions, trace>>

NextValidate == Validate

SpecValidate == InitValidate /\ [][NextValidate]_vars

\* ------------------------------------------------------ load and save
\* A JSON text that writes lastUpdated and project twice: json.loads keeps the
\* last value of a repeated key.
RepeatedText ==
    << <<"lastUpdated", 0>>, <<"project", "first">> >> \o Dumps(OldRecord)
       \o << <<"project", "last">> >>

StoreDisks ==
    InitDisks \cup
    { FileOf(RepeatedText),
      FileOf(Dumps(Pop(OldRecord, "lastUpdated"))),
      FileOf(Dumps(Pop(Pop(create_empty_progress(ProjectName, 0), "recentSessions"),
                       "knownIssues"))) }

InitStore ==
    /\ now = 0
    /\ disk \in StoreDisks
    /\ sessions = <<>>
    /\ trace = [s \in SessionIds |-> NoTrace]
    /\ last = NoCall
    /\ steps = 0
    /\ origin = disk
    /\ fs = NoTree
    /\ procs = NoProcs

\* A caller calls _load_progress(path).
Load ==
    /\ steps < MaxSteps
    /\ steps' = steps + 1
    /\ UNCHANGED <<origin, fs, procs>>
    /\ LET r == load_progress(disk, now) IN
         /\ disk' = r.disk
         /\ last' = [Call("load", "", IF r.raised THEN "JSONDecodeError" ELSE "ok") EXCEPT
                       !.ret = r.data, !.prevOp = last.op, !.prevRet = last.ret,
                       !.prevCreated = last.created]
    /\ UNCHANGED <<now, sessions, trace>>

\* A caller calls _save_progress(path, _load_progress(path)).
LoadSave ==
    /\ steps < MaxSteps
    /\ steps' = steps + 1
    /\ UNCHANGED <<origin, fs, procs>>
    /\ LET r == load_progress(disk, now) IN
         IF r.raised
         THEN /\ last' = Call("load_save", "", "JSONDecodeError")
              /\ UNCHANGED disk
         ELSE /\ disk' = save_progress(r.data, now)
              /\ last' = [Call("load_save", "", "ok") EXCEPT !.ret = r.data]
    /\ UNCHANGED <<now, sessions, trace>>

NextStore ==
    \/ Load
    \/ LoadSave
    \/ \E w \in WorkArgs : SetCurrentWork(w)
    \/ Tick

SpecStore == InitStore /\ [][NextStore]_vars

\* -------------------------------------------- missing and unusual files
\* A complete record of an older schema version.
V1Record == Put(OldRecord, "version", 1)

AnyFileDisks == {NoFile, CorruptFile, FileOf(<<>>), FileOf(Dumps(V1Record))}

InitAnyFile ==
    /\ now = 0
    /\ disk \in AnyFileDisks
    /\ sessions = <<>>
    /\ trace = [s \in SessionIds |-> NoTrace]
    /\ last = NoCall
    /\ steps = 0
    /\ origin = disk
    /\ fs = NoTree
    /\ procs = NoProcs

NextAnyFile ==
    \/ Load
    \/ LoadSave
    \/ \E s \in SessionIds : StartSession(s)
    \/ \E s \in SessionIds, in \in EventInputs : AddEvent(s, in)
    \/ \E s \in SessionIds, a \in EndArgs : EndSession(s, a)
    \/ GetCurrentWork
    \/ \E w \in WorkArgs : SetCurrentWork(w)
    \/ Tick

SpecAnyFile == InitAnyFile /\ [][NextAnyFile]_vars

\* ------------------------------------------------------ find_progress_file
MaxFinds == 2

\* The while loop, lines 277-286: it ends without looking once current is
\* its own parent.
RECURSIVE walk_up_through_git(_, _)
walk_up_through_git(f, current) ==
    IF current = Parent(current) THEN NotFound
    ELSE IF HasFile(f, current) THEN Found(current)
    ELSE walk_up_through_git(f, Parent(current))

RECURSIVE walk_up(_, _)
walk_up(f, current) ==
    IF current = Parent(current) THEN NotFound
    ELSE IF HasFile(f, current) THEN Found(current)
    ELSE IF HasGit(f, current) THEN NotFound
    ELSE walk_up(f, Parent(current))

\* Lines 289-294: the default record written in cwd.
create_in_parent(f, cwd, t) ==
    [f EXCEPT !.files[Parent(cwd)] = FileOf(Dumps(create_empty_progress(Name(cwd), t)))]

create_in(f, cwd, t) ==
    [f EXCEPT !.files[cwd] = FileOf(Dumps(create_empty_progress(Name(cwd), t)))]

find_progress_file(f, cwd, create_if_missing, t) ==
    IF HasFile(f, cwd) THEN [fs |-> f, path |-> Found(cwd)]
    ELSE LET w == walk_up(f, cwd) IN
         IF w.some THEN [fs |-> f, path |-> w]
         ELSE IF create_if_missing
         THEN [fs |-> create_in(f, cwd, t), path |-> Found(cwd)]
         ELSE [fs |-> f, path |-> NotFound]

FindProgressFile(cwd, create_if_missing) ==
    /\ steps < MaxFinds
    /\ steps' = steps + 1
    /\ LET r == find_progress_file(fs, cwd, create_if_missing, now) IN
         /\ fs' = r.fs
         /\ last' = [NoCall EXCEPT !.op = "find_progress_file", !.cwd = cwd,
                       !.create = create_if_missing, !.path = r.path]
    /\ UNCHANGED <<now, disk, sessions, trace, origin, procs>>

\* Trees as the tests build them: any directories hold a progress file with
\* content {} and any directories hold .git.
Trees ==
    {[files |-> [d \in Dirs |-> IF d \in F THEN FileOf(<<>>) ELSE NoFile], git |-> G] :
        F \in SUBSET Dirs, G \in SUBSET Dirs}

InitFind ==
    /\ now = 0
    /\ disk = NoFile
    /\ sessions = <<>>
    /\ trace = [s \in SessionIds |-> NoTrace]
    /\ last = NoCall
    /\ steps = 0
    /\ origin = NoFile
    /\ fs \in Trees
    /\ procs = NoProcs

NextFind == \E cwd \in Dirs, c \in BOOLEAN : FindProgressFile(cwd, c)

SpecFind == InitFind /\ [][NextFind]_vars

\* ------------------------------------------------- concurrent processes
\* The calls the processes make.
ConcSessions == {"s1"}
ConcWorks == {w \in WorkArgs : w.type = "plan" /\ w.planTask = "2"}
ConcEnds == {a \in EndArgs : a.summary = "S"}

session_events_shared(pr, p) == pr["A"].buffers

\* _session_events of process p, line 162.
session_events(pr, p) == pr[p].buffers

\* _save_progress by a process that loaded earlier: write_text replaces the
\* whole file, whatever it holds by now.
write_file_merge(current, data, t) ==
    IF current.exists /\ current.wellformed
    THEN save_progress(
             Update(Loads(current.text),
                    SelectSeq(data, LAMBDA m : ~Has(Loads(current.text), m[1])
                                               \/ m[1] = "currentWork")), t)
    ELSE save_progress(data, t)

write_file(current, data, t) == save_progress(data, t)

Loaded(p, call, r) ==
    [procs[p] EXCEPT !.pc = "loaded", !.call = call, !.loaded = r.data]

LoadStep(p, call, result) ==
    [NoCall EXCEPT !.op = "load_step", !.proc = p, !.call = call, !.result = result]

\* start_session up to its _save_progress, lines 167-169.
PStartLoad(p, s) ==
    /\ steps < MaxSteps
    /\ steps' = steps + 1
    /\ procs[p].pc = "idle"
    /\ LET r == load_progress(disk, now) IN
         IF r.raised
         THEN /\ last' = LoadStep(p, "start_session", "JSONDecodeError")
              /\ UNCHANGED <<disk, procs>>
         ELSE IF ~Has(r.data, "currentWork")
         THEN /\ last' = LoadStep(p, "start_session", "KeyError")
              /\ disk' = r.disk
              /\ UNCHANGED procs
         ELSE /\ disk' = r.disk
              /\ procs' = [procs EXCEPT ![p] =
                   [Loaded(p, "start_session", r) EXCEPT
                      !.sid = s,
                      !.data = start_session_data(r.data),
                      !.buffers = SetBuffer(session_events(procs, p), s,
                                            start_session_buffer(now)),
                      !.ghost[s] = [started |-> TRUE, added |-> <<>>]]]
              /\ last' = LoadStep(p, "start_session", "ok")
    /\ UNCHANGED <<now, sessions, trace, origin, fs>>

\* add_event in process p, lines 216-218.
PAddEvent(p, s, in) ==
    /\ steps < MaxSteps
    /\ steps' = steps + 1
    /\ procs[p].pc = "idle"
    /\ (s \in DOMAIN session_events(procs, p) =>
          Len(session_events(procs, p)[s]) < MaxBuf)
    /\ LET e == create_event(in.type, in.kwargs, now) IN
         procs' = [procs EXCEPT ![p] =
            [procs[p] EXCEPT
               !.buffers = SetBuffer(session_events(procs, p), s,
                                     add_event_buffer(session_events(procs, p), s, e)),
               !.ghost[s].added = Append(@, e)]]
    /\ last' = [NoCall EXCEPT !.op = "add_event", !.proc = p, !.sid = s]
    /\ UNCHANGED <<now, disk, sessions, trace, origin, fs>>

\* end_session up to its _save_progress, lines 182-209.
PEndLoad(p, s, a) ==
    /\ steps < MaxSteps
    /\ steps' = steps + 1
    /\ procs[p].pc = "idle"
    /\ LET r == load_progress(disk, now) IN
         IF r.raised
         THEN /\ last' = LoadStep(p, "end_session", "JSONDecodeError")
              /\ UNCHANGED <<disk, procs>>
         ELSE /\ disk' = r.disk
              /\ procs' = [procs EXCEPT ![p] =
                   [Loaded(p, "end_session", r) EXCEPT
                      !.sid = s,
                      !.end = a,
                      !.data = end_session_data(
                                   r.data,
                                   end_session_events(session_events(procs, p), s,
                                                      a.duration, now),
                                   a, now),
                      !.buffers = DelBuffer(session_events(procs, p), s),
                      !.flushed = procs[p].ghost[s],
                      !.ghost[s] = [started |-> FALSE, added |-> <<>>]]]
              /\ last' = LoadStep(p, "end_session", "ok")
    /\ UNCHANGED <<now, sessions, trace, origin, fs>>

\* set_current_work up to its _save_progress, lines 236-245.
PSetLoad(p, w) ==
    /\ steps < MaxSteps
    /\ steps' = steps + 1
    /\ procs[p].pc = "idle"
    /\ LET r == load_progress(disk, now) IN
         IF r.raised
         THEN /\ last' = LoadStep(p, "set_current_work", "JSONDecodeError")
              /\ UNCHANGED <<disk, procs>>
         ELSE /\ disk' = r.disk
              /\ procs' = [procs EXCEPT ![p] =
                   [Loaded(p, "set_current_work", r) EXCEPT
                      !.work = w,
                      !.data = set_current_work_data(r.data, w)]]
              /\ last' = LoadStep(p, "set_current_work", "ok")
    /\ UNCHANGED <<now, sessions, trace, origin, fs>>

\* The _save_progress that ends start_session, end_session or
\* set_current_work, and the return of the call.
PSave(p) ==
    /\ steps < MaxSteps
    /\ steps' = steps + 1
    /\ procs[p].pc = "loaded"
    /\ disk' = write_file(disk, procs[p].data, now)
    /\ procs' = [procs EXCEPT ![p].pc = "idle"]
    /\ last' = [NoCall EXCEPT
                  !.op = "save", !.proc = p, !.call = procs[p].call,
                  !.sid = procs[p].sid, !.work = procs[p].work, !.end = procs[p].end,
                  !.started = procs[p].flushed.started,
                  !.added = procs[p].flushed.added,
                  !.loaded = procs[p].loaded, !.before = disk]
    /\ UNCHANGED <<now, sessions, trace, origin, fs>>

InitConc ==
    /\ now = 0
    /\ disk \in {NoFile, FileOf(Dumps(OldRecord))}
    /\ sessions = <<>>
    /\ trace = [s \in SessionIds |-> NoTrace]
    /\ last = NoCall
    /\ steps = 0
    /\ origin = disk
    /\ fs = NoTree
    /\ procs = NoProcs

NextConc ==
    \E p \in Procs :
        \/ \E s \in ConcSessions : PStartLoad(p, s)
        \/ \E s \in ConcSessions, in \in EventInputs : PAddEvent(p, s, in)
        \/ \E s \in ConcSessions, a \in ConcEnds : PEndLoad(p, s, a)
        \/ \E w \in ConcWorks : PSetLoad(p, w)
        \/ PSave(p)

SpecConc == InitConc /\ [][NextConc]_vars

\* ------------------------------------------ sessions on a usable file
\* The session operations on a path that has no file yet or holds a
\* populated record.
InitSession ==
    /\ now = 0
    /\ disk \in {NoFile, FileOf(Dumps(OldRecord))}
    /\ sessions = <<>>
    /\ trace = [s \in SessionIds |-> NoTrace]
    /\ last = NoCall
    /\ steps = 0
    /\ origin = disk
    /\ fs = NoTree
    /\ procs = NoProcs

SpecSession == InitSession /\ [][Next]_vars

\* ------------------------------------------------------- event payloads
\* add_event calls whose keyword arguments are named like the fields of the
\* event itself, next to an ordinary one.
PayloadInputs ==
    { [type |-> PLAN_STARTED, kwargs |-> << <<"plan", "p.md">> >>],
      [type |-> CHECKPOINT, kwargs |-> << <<"type", "custom">>, <<"note", "n">> >>],
      [type |-> CHECKPOINT, kwargs |-> << <<"timestamp", 99>> >>] }

InitPayload ==
    /\ now = 0
    /\ disk = NoFile
    /\ sessions = <<>>
    /\ trace = [s \in SessionIds |-> NoTrace]
    /\ last = NoCall
    /\ steps = 0
    /\ origin = disk
    /\ fs = NoTree
    /\ procs = NoProcs

NextPayload ==
    \/ \E s \in SessionIds : StartSession(s)
    \/ \E s \in SessionIds, in \in PayloadInputs : AddEvent(s, in)
    \/ \E s \in SessionIds, a \in EndArgs : EndSession(s, a)
    \/ Tick

SpecPayload == InitPayload /\ [][NextPayload]_vars

\* ============================================================== claims
Ended == last.op = "end_session" /\ last.result = "ok"

Started == last.op = "start_session" /\ last.result = "ok"

WorkSet == last.op = "set_current_work" /\ last.result = "ok"

DiskWork == Get(DiskData, "currentWork")

DiskLast == Get(DiskData, "lastSession")

DiskEvents == Get(DiskLast, "events")

NullOrAbsent(d, k) == ~Has(d, k) \/ Get(d, k) = Null

\* C1: when end_session(s) closes a session that start_session(s) opened in
\* this process, lastSession.events on disk is session_start, then the events
\* add_event was given for s since that start, in the order given and each
\* once, then session_end carrying the duration.
C1_EventOrder ==
    (Ended /\ last.started) =>
        /\ Len(DiskEvents) = Len(last.added) + 2
        /\ Get(DiskEvents[1], "type") = SESSION_START
        /\ Keys(DiskEvents[1]) = {"type", "timestamp"}
        /\ \A i \in 1..Len(last.added) : DiskEvents[i + 1] = to_dict(last.added[i])
        /\ Get(DiskEvents[Len(DiskEvents)], "type") = SESSION_END
        /\ Get(DiskEvents[Len(DiskEvents)], "duration") = last.end.duration

C1_Witness ==
    /\ Ended /\ last.started
    /\ Len(last.added) = 2
    /\ last.added[1].type # last.added[2].type
    /\ Len(DiskEvents) = 4

\* C2: end_session replaces lastSession as a whole: the stored lastSession
\* has exactly the six keys end_session writes, with the duration, summary and
\* commits of the call, nextSteps the list given (empty when omitted) and
\* events the flushed buffer ending in session_end; nothing of the previous
\* lastSession is left.
C2_LastSessionReplaced ==
    Ended =>
        /\ Keys(DiskLast) =
             {"date", "duration_minutes", "summary", "events", "commits", "nextSteps"}
        /\ Get(DiskLast, "duration_minutes") = last.end.duration
        /\ Get(DiskLast, "summary") = last.end.summary
        /\ Get(DiskLast, "commits") = last.end.commits
        /\ Get(DiskLast, "nextSteps") = (IF last.end.given THEN last.end.nextSteps ELSE <<>>)
        /\ Len(DiskEvents) = Len(last.added) + (IF last.started THEN 2 ELSE 1)
        /\ \A i \in 1..Len(last.added) :
             DiskEvents[i + (IF last.started THEN 1 ELSE 0)] = to_dict(last.added[i])
        /\ Get(DiskEvents[Len(DiskEvents)], "type") = SESSION_END

\* The previous lastSession was the hand-kept one of OldRecord, with its
\* nextSteps and its extra key, and next_steps was omitted.
C2_Witness ==
    /\ Ended
    /\ steps = 1
    /\ origin = FileOf(Dumps(OldRecord))
    /\ ~last.end.given
    /\ Get(DiskLast, "nextSteps") = <<>>

\* C3: after end_session the stored currentWork is the default general state:
\* type general, plan, planTask, debugIssue and debugPhase null, and no
\* featureId value.
C3_WorkCleared ==
    Ended =>
        /\ Get(DiskWork, "type") = "general"
        /\ \A k \in {"plan", "planTask", "debugIssue", "debugPhase"} :
             Has(DiskWork, k) /\ Get(DiskWork, k) = Null
        /\ NullOrAbsent(DiskWork, "featureId")

\* end_session on the record of OldRecord, whose currentWork is a debug state
\* with its payload and a featureId key.
C3_Witness ==
    /\ Ended
    /\ steps = 1
    /\ origin = FileOf(Dumps(OldRecord))
    /\ Get(DiskWork, "type") = "general"
    /\ ~Has(DiskWork, "featureId")

\* The fields that belong to a work type.
FieldsOf(type) ==
    CASE type = "plan" -> {"plan", "planTask"}
      [] type = "debug" -> {"debugIssue", "debugPhase"}
      [] type = "feature" -> {"featureId"}
      [] OTHER -> {}

Exclusive(w) ==
    /\ Get(w, "type") \in {"general", "plan", "debug", "feature"}
    /\ \A k \in {"plan", "planTask", "debugIssue", "debugPhase", "featureId"} :
         k \notin FieldsOf(Get(w, "type")) => NullOrAbsent(w, k)

DefaultCreated ==
    origin \in {NoFile, FileOf(Dumps(create_empty_progress(ProjectName, 0)))}

\* C4: work-state exclusivity: in every record the store writes, starting from
\* a default-created record, every payload field of a type other than
\* currentWork.type is null or absent.
C4_Exclusive ==
    (DefaultCreated /\ disk.exists) => Exclusive(DiskWork)

\* C5: set_current_work overwrites currentWork wholesale: the stored value has
\* exactly the six fields of the call, each as passed (null when not passed),
\* whatever currentWork was before and whether or not a session is active.
C5_WorkOverwritten ==
    WorkSet =>
        /\ Keys(DiskWork) =
             {"type", "plan", "planTask", "debugIssue", "debugPhase", "featureId"}
        /\ Get(DiskWork, "type") = last.work.type
        /\ Get(DiskWork, "plan") = last.work.plan
        /\ Get(DiskWork, "planTask") = last.work.planTask
        /\ Get(DiskWork, "debugIssue") = last.work.debugIssue
        /\ Get(DiskWork, "debugPhase") = last.work.debugPhase
        /\ Get(DiskWork, "featureId") = last.work.featureId

\* set_current_work(plan, p, k) on a record in debug state, no session active.
C5_Witness ==
    /\ WorkSet
    /\ steps = 1
    /\ origin = FileOf(Dumps(OldRecord))
    /\ last.work.type = "plan" /\ last.work.planTask = "2"
    /\ DOMAIN sessions = {}
    /\ Get(DiskWork, "debugIssue") = Null

\* C6: after start_session the stored currentWork has type general and no
\* plan, planTask, debugIssue, debugPhase or featureId value is populated.
C6_StartClearsWork ==
    Started =>
        /\ Get(DiskWork, "type") = "general"
        /\ \A k \in {"plan", "planTask", "debugIssue", "debugPhase", "featureId"} :
             NullOrAbsent(DiskWork, k)

Validated == last.op = "validate"

AllIn(fields, d) == \A k \in fields : Has(d, k)

\* C7: validate returns without raising exactly when version is present and
\* is 2, project, currentWork and lastSession are present, currentWork has
\* type, plan, planTask, debugIssue and debugPhase, and lastSession has date,
\* duration_minutes, summary, events, commits and nextSteps; no other key and
\* no other value decides it.
C7_ValidateExact ==
    Validated =>
        (last.result = "ok" <=>
            /\ Has(DiskData, "version")
            /\ Get(DiskData, "version") = 2
            /\ AllIn({"project", "currentWork", "lastSession"}, DiskData)
            /\ AllIn({"type", "plan", "planTask", "debugIssue", "debugPhase"}, DiskWork)
            /\ AllIn({"date", "duration_minutes", "summary", "events", "commits",
                      "nextSteps"}, DiskLast))

\* A record without featureId, lastUpdated, recentSessions and knownIssues
\* passes.
C7_Witness ==
    /\ Validated
    /\ last.result = "ok"
    /\ ~Has(DiskWork, "featureId")
    /\ ~Has(DiskData, "lastUpdated")
    /\ ~Has(DiskData, "recentSessions")
    /\ ~Has(DiskData, "knownIssues")

\* The first key of order that d lacks is k.
FirstLacking(order, d, k) ==
    \E i \in DOMAIN order :
        /\ order[i] = k
        /\ ~Has(d, k)
        /\ \A j \in 1..(i - 1) : Has(d, order[j])

\* C8: validate reports the earliest failing check, in the order: version
\* missing; version not 2; the first missing of project, currentWork,
\* lastSession; the first missing of currentWork's type, plan, planTask,
\* debugIssue, debugPhase; the first missing of lastSession's date,
\* duration_minutes, summary, events, commits, nextSteps.
C8_ValidateOrder ==
    Validated =>
        LET topOrder == <<"project", "currentWork", "lastSession">>
            workOrder == <<"type", "plan", "planTask", "debugIssue", "debugPhase">>
            lastOrder == <<"date", "duration_minutes", "summary", "events", "commits",
                           "nextSteps">>
            topOk == AllIn({"project", "currentWork", "lastSession"}, DiskData)
        IN IF ~Has(DiskData, "version")
           THEN last.result = "Missing required field" /\ last.field = "version"
           ELSE IF Get(DiskData, "version") # 2
           THEN last.result = "Expected version 2"
           ELSE IF ~topOk
           THEN /\ last.result = "Missing required field"
                /\ FirstLacking(topOrder, DiskData, last.field)
           ELSE IF ~AllIn(Keys(GeneralWork), DiskWork)
           THEN /\ last.result = "Missing currentWork field"
                /\ FirstLacking(workOrder, DiskWork, last.field)
           ELSE IF \E i \in DOMAIN lastOrder : ~Has(DiskLast, lastOrder[i])
           THEN /\ last.result = "Missing lastSession field"
                /\ FirstLacking(lastOrder, DiskLast, last.field)
           ELSE last.result = "ok"

\* currentWork lacks plan and debugPhase and lastSession lacks date: plan is
\* the one reported.
C8_Witness ==
    /\ Validated
    /\ last.result = "Missing currentWork field"
    /\ last.field = "plan"
    /\ ~Has(DiskWork, "debugPhase")
    /\ ~Has(DiskLast, "date")

\* C9: save(load(path)) on an existing well-formed file leaves the record a
\* reader parses unchanged but for lastUpdated: the same keys in the same
\* order with the same values, unknown keys and the auxiliary lists included.
C9_RoundTrip ==
    (last.op = "load_save" /\ last.result = "ok" /\ ~last.created) =>
        /\ Pop(DiskData, "lastUpdated") = Pop(last.ret, "lastUpdated")
        /\ Has(DiskData, "lastUpdated")

\* The record has an unknown key and auxiliary lists, and lastUpdated moved.
C9_Witness ==
    /\ last.op = "load_save" /\ last.result = "ok" /\ ~last.created
    /\ Has(DiskData, "custom")
    /\ Get(DiskData, "knownIssues") = <<"k1">>
    /\ Has(last.ret, "lastUpdated")
    /\ Get(DiskData, "lastUpdated") # Get(last.ret, "lastUpdated")

\* C10: of two calls of load in sequence on a missing path only the first
\* writes the file: the second returns the record the first created and the
\* file still parses to that record.
C10_LoadTwice ==
    (last.op = "load" /\ last.prevOp = "load" /\ last.prevCreated) =>
        /\ ~last.created
        /\ last.result = "ok"
        /\ last.ret = last.prevRet
        /\ DiskData = last.prevRet

\* The second load runs after the clock has moved on from the creation.
C10_Witness ==
    /\ last.op = "load" /\ last.prevOp = "load" /\ last.prevCreated
    /\ origin = NoFile
    /\ now > Get(last.ret, "lastUpdated")

FileOps == {"start_session", "end_session", "get_current_work", "set_current_work"}

DefaultWork(w) ==
    /\ Get(w, "type") = "general"
    /\ \A k \in {"plan", "planTask", "debugIssue", "debugPhase"} :
         Has(w, k) /\ Get(w, k) = Null
    /\ NullOrAbsent(w, "featureId")

EmptyLast(l) ==
    /\ Get(l, "duration_minutes") = 0
    /\ Get(l, "summary") = ""
    /\ Get(l, "events") = <<>>
    /\ Get(l, "commits") = <<>>
    /\ Get(l, "nextSteps") = <<>>

\* C11: a call that finds no file never fails for it: it leaves a file with
\* version 2, project the name of the containing directory and empty
\* recentSessions and knownIssues, whose currentWork is the general default
\* and whose lastSession is empty wherever the call itself did not write
\* them; load returns that record and get_current_work its currentWork.
C11_LoadOrCreate ==
    (last.created /\ last.op \in FileOps \cup {"load", "load_save"}) =>
        /\ last.result = "ok"
        /\ disk.exists /\ disk.wellformed
        /\ Get(DiskData, "version") = 2
        /\ Get(DiskData, "project") = ProjectName
        /\ Get(DiskData, "recentSessions") = <<>>
        /\ Get(DiskData, "knownIssues") = <<>>
        /\ (last.op # "set_current_work" => DefaultWork(DiskWork))
        /\ (last.op # "end_session" => EmptyLast(DiskLast))
        /\ (last.op = "load" => last.ret = DiskData)
        /\ (last.op = "get_current_work" => last.ret = DiskWork)

\* get_current_work was the first call on the missing path.
C11_Witness ==
    /\ origin = NoFile
    /\ steps = 1
    /\ last.op = "get_current_work" /\ last.created
    /\ disk.exists
    /\ Get(last.ret, "type") = "general"

\* C12: get_current_work on an existing well-formed file returns the
\* currentWork that is in the file at that moment, which is what the last
\* completed set_current_work, start_session or end_session wrote, and leaves
\* the file as it was.
C12_GetReflectsDisk ==
    [][(last'.op = "get_current_work" /\ steps' = steps + 1
          /\ disk.exists /\ disk.wellformed) =>
         /\ disk' = disk
         /\ last'.result = "ok"
         /\ last'.ret = (IF Has(DiskData, "currentWork") THEN DiskWork ELSE <<>>)]_vars

\* get_current_work returned the plan work an earlier set_current_work stored
\* in a file that did not exist at first.
C12_Witness ==
    /\ origin = NoFile
    /\ last.op = "get_current_work" /\ last.result = "ok" /\ ~last.created
    /\ Has(last.ret, "type") /\ Get(last.ret, "type") = "plan"
    /\ last.ret = DiskWork

\* a is d or an ancestor of d.
IsPrefix(a, d) == Len(a) <= Len(d) /\ SubSeq(d, 1, Len(a)) = a

UpPath(d) == {a \in Dirs : IsPrefix(a, d)}

Deepest(S) == CHOOSE a \in S : \A b \in S : Len(b) <= Len(a)

\* The directories of the upward path of d that hold .git.
GitOn(d) == {a \in UpPath(d) : HasGit(fs, a)}

Finding == last.op = "find_progress_file"

\* C13: the file find_progress_file returns lies in cwd or an ancestor of
\* cwd, never in a sibling subtree and never strictly above the nearest
\* directory of that path that holds .git; and without createIfMissing the
\* result is absent when no directory from cwd up to that one has the file.
C13_GitBoundary ==
    Finding =>
        /\ last.path.some => IsPrefix(last.path.dir, last.cwd)
        /\ (last.path.some /\ GitOn(last.cwd) # {}) =>
               IsPrefix(Deepest(GitOn(last.cwd)), last.path.dir)
        /\ (~last.create /\ GitOn(last.cwd) # {}
              /\ \A a \in UpPath(last.cwd) :
                   IsPrefix(Deepest(GitOn(last.cwd)), a) => ~HasFile(fs, a)) =>
               ~last.path.some

\* Resolving below a repository whose parent holds a progress file: absent.
C13_Witness ==
    /\ Finding /\ ~last.create
    /\ last.cwd = <<"r", "sub", "deep">>
    /\ HasGit(fs, <<"r", "sub">>)
    /\ HasFile(fs, <<"r">>)
    /\ ~last.path.some

\* The directories of the upward path of d whose file the walk may reach:
\* they hold the file and no directory strictly below them on the path
\* holds .git.
Reachable(d) ==
    {a \in UpPath(d) :
        /\ HasFile(fs, a)
        /\ \A b \in UpPath(d) : Len(b) > Len(a) => ~HasGit(fs, b)}

\* C14: find_progress_file returns the file of the nearest directory on the
\* upward path that has one, cwd first, when no directory strictly below
\* that one on the path holds .git; a directory holding both .git and the
\* file counts.
C14_NearestFile ==
    (Finding /\ Reachable(last.cwd) # {}) =>
        last.path = Found(Deepest(Reachable(last.cwd)))

IsDefaultFile(file, name) ==
    /\ file.exists /\ file.wellformed
    /\ LET d == Loads(file.text) IN
         /\ Get(d, "version") = 2
         /\ Get(d, "project") = name
         /\ DefaultWork(Get(d, "currentWork"))
         /\ EmptyLast(Get(d, "lastSession"))
         /\ Get(d, "recentSessions") = <<>>
         /\ Get(d, "knownIssues") = <<>>

\* C15: when the search finds nothing and createIfMissing is true, the call
\* writes a default version-2 record in cwd, changes nothing else, returns
\* that file, and a following search from cwd finds the same file; in every
\* other case the tree is left as it was. A search that follows a creating
\* call from the same cwd returns the path that call returned.
C15_CreateInCwd ==
    [][(last'.op = "find_progress_file" /\ steps' = steps + 1) =>
         LET cwd == last'.cwd
             nothing == ~find_progress_file(fs, cwd, FALSE, now).path.some
         IN /\ (nothing /\ last'.create) =>
                  /\ last'.path = Found(cwd)
                  /\ IsDefaultFile(fs'.files[cwd], Name(cwd))
                  /\ fs'.git = fs.git
                  /\ \A d \in Dirs \ {cwd} : fs'.files[d] = fs.files[d]
                  /\ find_progress_file(fs', cwd, FALSE, now').path = Found(cwd)
            /\ ~(nothing /\ last'.create) => fs' = fs
            /\ (Finding /\ last.create /\ last.cwd = cwd /\ ~last'.create) =>
                  last'.path = last.path]_vars

\* A search from r/sub inside the repository r found the record an earlier
\* creating call wrote in r/sub.
C15_Witness ==
    /\ Finding /\ ~last.create /\ steps = 2
    /\ last.cwd = <<"r", "sub">>
    /\ last.path = Found(<<"r", "sub">>)
    /\ HasGit(fs, <<"r">>) /\ ~HasFile(fs, <<"r">>)
    /\ IsDefaultFile(fs.files[<<"r", "sub">>], "sub")

Saved == last.op = "save"

\* The top-level fields the call that saved assigns.
Written(call) ==
    IF call = "end_session"
    THEN {"lastSession", "currentWork", "lastUpdated"}
    ELSE {"currentWork", "lastUpdated"}

\* C16: the file after a process's save is that process's complete record:
\* every field its call does not assign has the value the process loaded,
\* whatever another process saved in between, and the fields it assigns have
\* its values; nothing of the file it overwrote remains.
C16_LastWriterWins ==
    Saved =>
        /\ disk.exists /\ disk.wellformed
        /\ Keys(DiskData) \ Written(last.call) = Keys(last.loaded) \ Written(last.call)
        /\ \A k \in Keys(last.loaded) \ Written(last.call) :
             Get(DiskData, k) = Get(last.loaded, k)
        /\ last.call = "set_current_work" => DiskWork = set_current_work_value(last.work)
        /\ last.call = "start_session" => Get(DiskWork, "type") = "general"
        /\ last.call = "end_session" =>
             /\ DefaultWork(DiskWork)
             /\ Get(DiskLast, "summary") = last.end.summary

\* A set_current_work that loaded before another process's end_session
\* saved, and saved after it: the lastSession of that end_session is gone.
C16_Witness ==
    /\ Saved /\ last.call = "set_current_work"
    /\ origin = NoFile
    /\ Get(Get(Loads(last.before.text), "lastSession"), "summary") = "S"
    /\ Get(DiskLast, "summary") = ""
    /\ DiskWork = set_current_work_value(last.work)

\* C17: the events end_session(s) writes are those buffered for s in the
\* process that calls it, then session_end; what another process buffered
\* under the same id is not among them.
C17_PrivateBuffer ==
    (Saved /\ last.call = "end_session") =>
        LET off == IF last.started THEN 1 ELSE 0 IN
        /\ Len(DiskEvents) = Len(last.added) + off + 1
        /\ last.started => Get(DiskEvents[1], "type") = SESSION_START
        /\ \A i \in 1..Len(last.added) : DiskEvents[i + off] = to_dict(last.added[i])
        /\ Get(DiskEvents[Len(DiskEvents)], "type") = SESSION_END

\* B ended s1 while A held an event for s1: the file has session_end only.
C17_Witness ==
    /\ Saved /\ last.call = "end_session" /\ last.proc = "B"
    /\ last.sid \in DOMAIN procs["A"].buffers
    /\ Len(procs["A"].buffers[last.sid]) >= 1
    /\ Len(DiskEvents) = 1

StoreOps == FileOps \cup {"load", "load_save"}

\* C18: no store operation validates the record it reads or writes: none
\* ends with a schema validation error, and on a well-formed record whose
\* version is 1 load, load then save, start_session, end_session,
\* get_current_work and set_current_work all succeed and the file keeps
\* version 1.
C18_NoImplicitValidation ==
    /\ last.result \in {"ok", "JSONDecodeError", "KeyError"}
    /\ origin = FileOf(Dumps(V1Record)) =>
         /\ last.op \in StoreOps => last.result = "ok"
         /\ disk.exists /\ disk.wellformed
         /\ Get(DiskData, "version") = 1

\* end_session rewrote a version-1 record.
C18_Witness ==
    /\ origin = FileOf(Dumps(V1Record))
    /\ last.op = "end_session" /\ last.result = "ok"
    /\ DiskLast = end_session_last(
                      end_session_events(<<>>, last.sid, last.end.duration, now), last.end, now)
    /\ Get(DiskData, "version") = 1

\* C19: on an existing well-formed record that lacks a field, start_session,
\* end_session, get_current_work and set_current_work all complete without
\* raising.
C19_MissingFieldOk ==
    (origin.exists /\ origin.wellformed /\ last.op \in FileOps) => last.result = "ok"

\* C20: on a malformed file every operation that reads it raises the parse
\* error, the file stays as it was, and each session buffer holds exactly
\* the events add_event put there, also after a failed end_session.
C20_MalformedUnchanged ==
    origin = CorruptFile =>
        /\ disk = CorruptFile
        /\ last.op \in StoreOps => last.result = "JSONDecodeError"
        /\ DOMAIN sessions = {s \in SessionIds : trace[s].added # <<>>}
        /\ \A s \in DOMAIN sessions : sessions[s] = trace[s].added

\* end_session failed on a malformed file with an event pending.
C20_Witness ==
    /\ origin = CorruptFile
    /\ last.op = "end_session" /\ last.result = "JSONDecodeError"
    /\ last.sid \in DOMAIN sessions
    /\ Len(sessions[last.sid]) = 1

Unowned == {"project", "version", "recentSessions", "knownIssues"}

\* C21: whatever sequence of start_session, add_event, end_session,
\* set_current_work and get_current_work has run, project, version,
\* recentSessions and knownIssues on disk are those of the record first read,
\* or of the default record when the store created the file.
C21_UnownedKept ==
    (disk.exists /\ disk.wellformed) =>
        IF origin.exists
        THEN \A k \in Unowned :
               /\ Has(DiskData, k) = Has(Loads(origin.text), k)
               /\ Has(DiskData, k) => Get(DiskData, k) = Get(Loads(origin.text), k)
        ELSE /\ Get(DiskData, "project") = ProjectName
             /\ Get(DiskData, "version") = 2
             /\ Get(DiskData, "recentSessions") = <<>>
             /\ Get(DiskData, "knownIssues") = <<>>

\* A session was ended on a record that had recent sessions and known issues.
C21_Witness ==
    /\ origin = FileOf(Dumps(OldRecord))
    /\ Ended /\ last.started
    /\ Get(DiskLast, "summary") = last.end.summary
    /\ Get(DiskData, "recentSessions") = <<"r1">>
    /\ Get(DiskData, "knownIssues") = <<"k1">>

\* C22: right after start_session(s) the buffer of s is the single
\* session_start event, whatever it held before; from then on it is that
\* event followed by the events added since, and end_session(s) writes
\* session_start, those events and session_end.
C22_StartResetsBuffer ==
    /\ Started =>
         /\ last.sid \in DOMAIN sessions
         /\ Len(sessions[last.sid]) = 1
         /\ sessions[last.sid][1].type = SESSION_START
         /\ sessions[last.sid][1].data = <<>>
    /\ \A s \in SessionIds :
         trace[s].started =>
           /\ s \in DOMAIN sessions
           /\ Len(sessions[s]) = Len(trace[s].added) + 1
           /\ sessions[s][1].type = SESSION_START
           /\ SubSeq(sessions[s], 2, Len(sessions[s])) = trace[s].added
    /\ (Ended /\ last.started) => Len(DiskEvents) = Len(last.added) + 2

\* start_session ran for an id whose buffer already held two events.
C22_Witness ==
    /\ Started
    /\ Len(last.dropped) = 2
    /\ Len(sessions[last.sid]) = 1

\* C23: add_event leaves the file as it is, missing when it was missing, and
\* changes only the buffer of its session id, which becomes the old buffer
\* (empty when the id had none) with one event created now at its end.
C23_AddEventBufferOnly ==
    [][(last'.op = "add_event" /\ steps' = steps + 1 /\ now' = now) =>
         LET s == last'.sid
             old == IF s \in DOMAIN sessions THEN sessions[s] ELSE <<>>
         IN /\ disk' = disk
            /\ DOMAIN sessions' = DOMAIN sessions \cup {s}
            /\ Len(sessions'[s]) = Len(old) + 1
            /\ SubSeq(sessions'[s], 1, Len(old)) = old
            /\ sessions'[s][Len(old) + 1].timestamp = now
            /\ sessions'[s][Len(old) + 1].type \in {in.type : in \in EventInputs}
            /\ \A x \in DOMAIN sessions \ {s} : sessions'[x] = sessions[x]]_vars

\* Two events were added for an id that was never started, on a path that
\* still has no file.
C23_Witness ==
    /\ last.op = "add_event"
    /\ ~disk.exists
    /\ ~trace[last.sid].started
    /\ Len(sessions[last.sid]) = 2

\* C24: end_session for an id that start_session did not open in this
\* process succeeds and writes the events add_event buffered for the id, in
\* order, then session_end: session_end alone when the id had no buffer, and
\* never a session_start.
C24_EndWithoutStart ==
    (last.op = "end_session" /\ origin # CorruptFile /\ ~last.started) =>
        /\ last.result = "ok"
        /\ Len(DiskEvents) = Len(last.added) + 1
        /\ \A i \in 1..Len(last.added) : DiskEvents[i] = to_dict(last.added[i])
        /\ Get(DiskEvents[Len(DiskEvents)], "type") = SESSION_END
        /\ \A i \in 1..Len(DiskEvents) : Get(DiskEvents[i], "type") # SESSION_START

\* end_session was the first call of the process for its id.
C24_Witness ==
    /\ Ended /\ steps = 1
    /\ ~last.started /\ last.added = <<>>
    /\ Len(DiskEvents) = 1
    /\ Get(DiskEvents[1], "type") = SESSION_END

LastSessionOf(file) ==
    IF Has(Loads(file.text), "lastSession")
    THEN <<Get(Loads(file.text), "lastSession")>>
    ELSE <<>>

\* C25: start_session, add_event, set_current_work and get_current_work
\* leave lastSession on disk as it was (the empty lastSession of the default
\* record when they create the file), so only end_session changes it.
C25_OnlyEndCommits ==
    [][(last'.op \in {"start_session", "add_event", "set_current_work", "get_current_work"}
          /\ steps' = steps + 1 /\ now' = now) =>
         IF disk.exists
         THEN disk'.exists /\ LastSessionOf(disk') = LastSessionOf(disk)
         ELSE disk'.exists =>
                /\ Has(Loads(disk'.text), "lastSession")
                /\ EmptyLast(Get(Loads(disk'.text), "lastSession"))]_vars

\* A session is open with events buffered, the work was just set, and the
\* file still holds the lastSession it had at first.
C25_Witness ==
    /\ origin = FileOf(Dumps(OldRecord))
    /\ last.op = "set_current_work" /\ last.result = "ok"
    /\ \E s \in DOMAIN sessions : trace[s].started /\ Len(sessions[s]) = 2
    /\ DiskLast = Get(OldRecord, "lastSession")

EventsOf(file) == Get(Get(Loads(file.text), "lastSession"), "events")

\* C26: when end_session(s) returns, s has no buffer; an end_session(s) that
\* follows it writes session_end alone, and an add_event(s) or
\* start_session(s) that follows it begins a buffer of one event.
C26_EndDiscardsBuffer ==
    [][(steps' = steps + 1 /\ now' = now) =>
         /\ (last'.op = "end_session" /\ last'.result = "ok") =>
               last'.sid \notin DOMAIN sessions'
         /\ (Ended /\ last'.op = "end_session" /\ last'.sid = last.sid) =>
               /\ last'.result = "ok"
               /\ Len(EventsOf(disk')) = 1
               /\ Get(EventsOf(disk')[1], "type") = SESSION_END
         /\ (Ended /\ last'.op \in {"add_event", "start_session"}
               /\ last'.result = "ok" /\ last'.sid = last.sid) =>
               Len(sessions'[last.sid]) = 1]_vars

\* end_session flushed a started session with an event and left no buffer.
C26_Witness ==
    /\ Ended /\ last.started
    /\ Len(last.added) = 1
    /\ Len(DiskEvents) = 3
    /\ last.sid \notin DOMAIN sessions

\* C27: with no .git in cwd or any ancestor, the search looks in every
\* directory up to and including the filesystem root, so when the root holds
\* a progress file a search from any directory returns a file.
C27_RootChecked ==
    (Finding /\ ~last.create /\ GitOn(last.cwd) = {} /\ HasFile(fs, <<>>)) =>
        last.path.some

\* C28: starting from a record the store created, after any sequence of
\* start_session, add_event, set_current_work and end_session the record on
\* disk passes validate_progress_schema: version 2 and every required
\* top-level, currentWork and lastSession key present.
C28_SchemaKept ==
    (DefaultCreated /\ disk.exists) =>
        /\ validate_progress_schema(DiskData) = Passed
        /\ Get(DiskData, "version") = 2
        /\ AllIn({"version", "project", "currentWork", "lastSession"}, DiskData)
        /\ AllIn({"type", "plan", "planTask", "debugIssue", "debugPhase"}, DiskWork)
        /\ AllIn({"date", "duration_minutes", "summary", "events", "commits", "nextSteps"},
                 DiskLast)

\* A started session with an event was ended on a file the store created.
C28_Witness ==
    /\ origin = NoFile
    /\ Ended /\ last.started /\ Len(last.added) = 1
    /\ Len(DiskEvents) = 3
    /\ validate_progress_schema(DiskData) = Passed

\* C29: every event written to lastSession.events has the type it was
\* created with and the timestamp of its creation, whatever its payload
\* holds, and from_dict(to_dict(e)) is e again.
C29_TypeAndTimestampKept ==
    Ended =>
        LET off == IF last.started THEN 1 ELSE 0 IN
        \A i \in 1..Len(last.added) :
            /\ Get(DiskEvents[i + off], "type") = last.added[i].type
            /\ Get(DiskEvents[i + off], "timestamp") = last.added[i].timestamp
            /\ from_dict(to_dict(last.added[i])) = last.added[i]

\* C30: a start_session, add_event or end_session for one id leaves the
\* buffer of every other id as it was, and a successful end_session writes
\* the events buffered under its own id, then session_end.
C30_BuffersIndependent ==
    [][(steps' = steps + 1 /\ now' = now
          /\ last'.op \in {"start_session", "add_event", "end_session"}) =>
         /\ \A x \in SessionIds \ {last'.sid} :
              /\ (x \in DOMAIN sessions') = (x \in DOMAIN sessions)
              /\ x \in DOMAIN sessions => sessions'[x] = sessions[x]
         /\ (last'.op = "end_session" /\ last'.result = "ok") =>
              LET own == IF last'.sid \in DOMAIN sessions
                         THEN sessions[last'.sid] ELSE <<>>
              IN /\ Len(EventsOf(disk')) = Len(own) + 1
                 /\ \A i \in 1..Len(own) : EventsOf(disk')[i] = to_dict(own[i])]_vars

\* Events were added for both ids, then one id was ended: its event is on
\* disk and the other id still holds its own.
C30_Witness ==
    /\ Ended /\ ~last.started /\ Len(last.added) = 1
    /\ Len(DiskEvents) = 2
    /\ \E x \in DOMAIN sessions :
         /\ x # last.sid
         /\ Len(sessions[x]) = 1
         /\ sessions[x] = trace[x].added

====
